---- MODULE Spec2Model ----
(***************************************************************************)
(* Derived-artifact generation pipeline of dff_architecture: the contour   *)
(* export (ogr2ogr_export.py), the imagery export with its clip fallback   *)
(* chain (raster_export.py), the DEM export (dem_export.py), the project   *)
(* export (project_export.py) and the export-all batch of main.py.         *)
(*                                                                         *)
(* A behaviour is a sequence of command-line invocations of main().  Each  *)
(* producer is cut into steps at the points where it consults the file     *)
(* system or an external collaborator (QGIS, a subprocess, the network).   *)
(* What the configuration and the installation decide (the provider, the   *)
(* presence of the contour shapefile, whether QGIS and its processing      *)
(* modules load) is fixed in cfg; the outcome of every other consultation  *)
(* is a nondeterministic choice made at the call.                          *)
(* The file system holds, per output path, the kind of content and whether *)
(* the content was written by the producer invocation now running.         *)
(***************************************************************************)
EXTENDS Naturals, Sequences, FiniteSets, TLC

VARIABLES
    fs,       \* file system: output path -> content
    cfg,      \* configuration and installation (constant through a behaviour)
    runs,     \* number of main() invocations so far
    cmd,      \* the command main() is executing: [name, force]
    pc,       \* position inside the running producer, or "idle" / "done"
    cur,      \* history of the producer invocation now running
    prevOk,   \* the producer whose invocation, the one just before, returned with force=false
    imgPrev,  \* what an earlier imagery run that went through the clip chain exposed
    batch,    \* export-all bookkeeping: producers attempted / failed
    call      \* the helper function last applied on its own: its name, arguments and result

vars == <<fs, cfg, runs, cmd, pc, cur, prevOk, imgPrev, batch, call>>

\* Number of main() invocations explored in one behaviour.
MaxRuns == 2

Files == {"dxf", "imagery", "dem", "project", "debug", "tmp_tif", "tmp_png"}
Producers == {"contours", "imagery", "dem", "project"}
Commands == {"export-dxf", "export-imagery", "export-dem", "export-qgis-project", "export-all"}

---------------------------------------------------------------------------
\* File contents.

NoFile == [k |-> "none", fresh |-> FALSE]
Exists(c) == c.k # "none"
Written(kind) == [k |-> kind, fresh |-> TRUE]
Age(f) == [x \in DOMAIN f |-> [f[x] EXCEPT !.fresh = FALSE]]

\* The output path of each producer.
Target(p) ==
    CASE p = "contours" -> "dxf"
      [] p = "imagery"  -> "imagery"
      [] p = "dem"      -> "dem"
      [] p = "project"  -> "project"

\* The step that is the producer's own generation step.
OwnStep(p) ==
    CASE p = "contours" -> "ogr2ogr"
      [] p = "imagery"  -> "render"
      [] p = "dem"      -> "interp"
      [] p = "project"  -> "write"

FirstPc_cacheFirst(p) ==
    CASE p = "contours" -> "ctr_gate"
      [] p = "imagery"  -> "img_config"
      [] p = "dem"      -> "dem_load"
      [] p = "project"  -> "prj_collect"

FirstPc(p) ==
    CASE p = "contours" -> "ctr_input"
      [] p = "imagery"  -> "img_config"
      [] p = "dem"      -> "dem_load"
      [] p = "project"  -> "prj_collect"

---------------------------------------------------------------------------
\* The cache gate: `out_path.exists() and not force`.

ShouldSkip_dropExists(exists, force) == ~force

ShouldSkip_dropForce(exists, force) == exists

ShouldSkip(exists, force) == exists /\ ~force

---------------------------------------------------------------------------
\* The tile probe, test_xyz_tile: one request, and what came back.

\* `if len(data) < 128`.
MinTileBytes == 128

\* No request was sent.
NoReply == [err |-> FALSE, status |-> 0, len |-> 0, sig |-> "none"]

\* urlopen raised (no connection, timeout, an HTTP error status).
RequestError == [err |-> TRUE, status |-> 0, len |-> 0, sig |-> "none"]

\* Responses urlopen hands back: the status, the number of bytes read(256)
\* returned and what the body starts with.
Replies ==
    {RequestError} \cup
    [err : {FALSE}, status : {200, 204}, len : {0, MinTileBytes - 1, MinTileBytes},
     sig : {"png", "jpeg", "html"}]

test_xyz_tile_noSize(r) ==
    IF r.err THEN "raise"
    ELSE IF r.status # 200 THEN "raise"
    ELSE IF ~(r.sig \in {"png", "jpeg"}) THEN "raise"
    ELSE "ok"

\* Lines 423-434: every failure inside the request block is re-raised as
\* RuntimeError("XYZ tile test failed ...").
test_xyz_tile(r) ==
    IF r.err THEN "raise"
    ELSE IF r.status # 200 THEN "raise"
    ELSE IF r.len < MinTileBytes THEN "raise"
    ELSE IF ~(r.sig \in {"png", "jpeg"}) THEN "raise"
    ELSE "ok"

---------------------------------------------------------------------------
\* load_boundary_layer(cfg, None), as the DEM and project exports call it.

\* SITE_BOUNDARY_PATH: unset, a file that is there (a valid layer or not),
\* or a path under which nothing is found. SITE_BOUNDARY_LAYER, used when
\* the path is unset: unset, a layer that loads, one that does not.
BoundaryConfigs ==
    {[path |-> "unset", name |-> "unset"],
     [path |-> "valid", name |-> "unset"],
     [path |-> "invalid", name |-> "unset"],
     [path |-> "missing", name |-> "unset"],
     [path |-> "unset", name |-> "loadable"],
     [path |-> "unset", name |-> "unloadable"]}

\* Lines 106-113: a path that resolves is loaded outside any try; one that
\* does not is tried by name, every exception giving None. Lines 118-125:
\* the same for the layer name.
load_boundary_layer(b) ==
    IF b.path # "unset"
    THEN CASE b.path = "valid"   -> "layer"
           [] b.path = "invalid" -> "raise"
           [] b.path = "missing" -> "none"
    ELSE IF b.name # "unset"
         THEN IF b.name = "loadable" THEN "layer" ELSE "none"
         ELSE "none"

Configured(b) == b.path # "unset" \/ b.name # "unset"

NoBoundary == [configured |-> FALSE, layer |-> FALSE]

Boundary(b) == [configured |-> Configured(b), layer |-> load_boundary_layer(b) = "layer"]

\* `boundary_layer.extent() if boundary_layer else contour_layer.extent()`
Extent(boundary_layer) == IF boundary_layer THEN "boundary" ELSE "contour"

---------------------------------------------------------------------------
\* The extra layers of run_export_project (EXTRA_LAYERS, lines 80-85).

MaxExtras == 2

\* The configured extra layers, each one standing for what its load does.
ExtraLayers == UNION {[1..n -> {"ok", "fail"}] : n \in 0..MaxExtras}

NoExtras == [names |-> <<>>, tried |-> <<>>, got |-> <<>>]

\* A failed load ends the loop.
RECURSIVE load_extras_stopAtFailure(_, _, _)
load_extras_stopAtFailure(extra_layers, k, acc) ==
    IF k > Len(extra_layers) THEN acc
    ELSE IF extra_layers[k] = "ok"
         THEN load_extras_stopAtFailure(extra_layers, k + 1,
                  [acc EXCEPT !.tried = Append(@, k), !.got = Append(@, k)])
         ELSE [acc EXCEPT !.tried = Append(@, k)]

\* for extra in extra_layers: try: layers.append(load_data_layer(...))
\*                            except Exception: pass
RECURSIVE load_extras(_, _, _)
load_extras(extra_layers, k, acc) ==
    IF k > Len(extra_layers) THEN acc
    ELSE load_extras(extra_layers, k + 1,
             [acc EXCEPT !.tried = Append(@, k),
                         !.got = IF extra_layers[k] = "ok" THEN Append(@, k) ELSE @])

\* `if not layers: raise RuntimeError("No layers found ...")`
NoLayers(layers) == layers = {}

---------------------------------------------------------------------------
\* Bookkeeping of one producer invocation.

NoRun ==
    [prod |-> "none", force |-> FALSE, res |-> "none", err |-> "none",
     gate |-> "none", ex |-> FALSE, sgate |-> "none", sex |-> FALSE,
     gen |-> {}, pre |-> {}, ex0 |-> FALSE, snap |-> NoFile,
     raw |-> NoFile, chain |-> <<>>, log |-> <<>>, layers |-> {},
     probe |-> NoReply, tool |-> "none", exit |-> <<>>, sub |-> "none",
     trace |-> <<>>, bnd |-> NoBoundary, extent |-> "none", field |-> "none"]

NewRun(p, f, files) ==
    [NoRun EXCEPT !.prod = p, !.force = f, !.res = "run",
                  !.ex0 = Exists(files[Target(p)]), !.snap = files[Target(p)]]

Raise(c, e) == [c EXCEPT !.res = "raise", !.err = e]
Return(c) == [c EXCEPT !.res = "ret"]

\* The producer of c when c returned with force=false.
Summary(c) == IF c.res = "ret" /\ ~c.force THEN c.prod ELSE "none"

\* Outcomes of an external generation process or routine that writes its
\* output directly to the path it is given.
ToolOutcomes == {"ok", "fail", "fail_partial"}

AfterTool(c, o) ==
    CASE o = "ok"           -> Written("full")
      [] o = "fail_partial" -> Written("partial")
      [] o = "fail"         -> c

NoCall == [fn |-> "none"]

---------------------------------------------------------------------------
\* A file left by an earlier export.
Stale(kind) == [k |-> kind, fresh |-> FALSE]

\* The output directory is empty, or holds the DXF of an export made
\* before the contour shapefile was moved or removed.
Init ==
    /\ \E dxf \in {NoFile, Stale("full")} : fs = [f \in Files |-> IF f = "dxf" THEN dxf ELSE NoFile]
    /\ cfg \in [provider : {"wms", "xyz", "other"},  \* IMAGERY_PROVIDER
                dem_tif : BOOLEAN,                   \* OUTPUT_DEM_TIF_PATH is set
                imagery_tif : BOOLEAN,               \* IMAGERY_TIF_PATH is set
                contour_shp : BOOLEAN,               \* CONTOUR_SHP_PATH names an existing file
                qgis : BOOLEAN,                      \* ensure_qgis succeeds
                processing : BOOLEAN,                \* the QGIS processing modules can be imported
                keep_temp : BOOLEAN]                 \* KEEP_TEMP_IMAGERY is set
    /\ runs = 0
    /\ cmd = [name |-> "none", force |-> FALSE]
    /\ pc = "idle"
    /\ cur = NoRun
    /\ prevOk = "none"
    /\ imgPrev = [how |-> "none", force |-> FALSE, log |-> <<>>]
    /\ batch = [attempted |-> {}, failed |-> {}]
    /\ call = NoCall

---------------------------------------------------------------------------
\* main(): dispatch of one command.

FirstProducer(c) ==
    CASE c = "export-dxf"          -> "contours"
      [] c = "export-imagery"      -> "imagery"
      [] c = "export-dem"          -> "dem"
      [] c = "export-qgis-project" -> "project"
      [] c = "export-all"          -> "contours"

NextProducer(p) ==
    CASE p = "contours" -> "imagery"
      [] p = "imagery"  -> "dem"
      [] p = "dem"      -> "project"
      [] p = "project"  -> "none"

NoCommand == [name |-> "none", force |-> FALSE]
NoBatch == [attempted |-> {}, failed |-> {}]

main_command(cs) ==
    /\ pc = "idle"
    /\ runs < MaxRuns
    /\ \E c \in cs, f \in BOOLEAN :
         LET p == FirstProducer(c) IN
         /\ cmd' = [name |-> c, force |-> f]
         /\ cur' = NewRun(p, f, fs)
         /\ pc' = FirstPc(p)
         /\ batch' = [attempted |-> {p}, failed |-> {}]
    /\ runs' = runs + 1
    /\ UNCHANGED <<fs, cfg, prevOk, imgPrev, call>>

main == main_command(Commands)

---------------------------------------------------------------------------
\* run_export_contours

run_export_contours_input ==
    /\ pc = "ctr_input"
    /\ IF cfg.contour_shp
       THEN /\ pc' = "ctr_gate"
            /\ cur' = [cur EXCEPT !.trace = @ \o <<"resolve", "exists">>]
       ELSE /\ pc' = "done"
            /\ cur' = Raise([cur EXCEPT !.trace = @ \o <<"resolve", "exists">>], "NotFound")
    /\ UNCHANGED <<fs, cfg, runs, cmd, prevOk, imgPrev, batch, call>>

run_export_contours_gate ==
    /\ pc = "ctr_gate"
    /\ LET e == Exists(fs["dxf"]) IN
         IF ShouldSkip(e, cur.force)
         THEN /\ pc' = "done"
              /\ cur' = Return([cur EXCEPT !.gate = "skip", !.ex = e, !.trace = Append(@, "cache")])
         ELSE /\ pc' = "ctr_tool"
              /\ cur' = [cur EXCEPT !.gate = "gen", !.ex = e, !.trace = Append(@, "cache")]
    /\ UNCHANGED <<fs, cfg, runs, cmd, prevOk, imgPrev, batch, call>>

run_export_contours_tool ==
    /\ pc = "ctr_tool"
    /\ \E located \in BOOLEAN :
         IF located
         THEN /\ pc' = "ctr_run"
              /\ cur' = [cur EXCEPT !.tool = "located", !.trace = Append(@, "locate")]
         ELSE /\ pc' = "done"
              /\ cur' = Raise([cur EXCEPT !.tool = "missing", !.trace = Append(@, "locate")],
                              "ToolUnavailable")
    /\ UNCHANGED <<fs, cfg, runs, cmd, prevOk, imgPrev, batch, call>>

\* The exit status of the process for each outcome.
ExitStatus(o) == IF o = "ok" THEN 0 ELSE 1

\* subprocess.run(cmd, check=True): what the caller gets for an exit status.
check_ignored(status) == "ret"

check(status) == IF status = 0 THEN "ret" ELSE "CalledProcessError"

\* Lines 127-150: the ogr2ogr process. A located path that cannot be
\* launched (an override that does not exist) makes subprocess.run raise an
\* OSError before any process exists.
run_export_contours_run ==
    /\ pc = "ctr_run"
    /\ \/ /\ fs' = fs
          /\ cur' = Raise([cur EXCEPT !.gen = @ \cup {"ogr2ogr"},
                                      !.trace = @ \o <<"query", "run">>], "OSError")
       \/ \E o \in ToolOutcomes :
            LET c == [cur EXCEPT !.gen = @ \cup {"ogr2ogr"}, !.exit = <<ExitStatus(o)>>,
                                 !.trace = @ \o <<"query", "run">>] IN
            /\ fs' = [fs EXCEPT !["dxf"] = AfterTool(@, o)]
            /\ cur' = IF check(ExitStatus(o)) = "ret"
                      THEN Return(c)
                      ELSE Raise(c, check(ExitStatus(o)))
    /\ pc' = "done"
    /\ UNCHANGED <<cfg, runs, cmd, prevOk, imgPrev, batch, call>>

---------------------------------------------------------------------------
\* run_export_dem

\* ensure_qgis, the contour path checks, and the loading of the contour and
\* boundary layers: all of it runs before the cache gate.
run_export_dem_load ==
    /\ pc = "dem_load"
    /\ \E o \in (IF ~cfg.qgis THEN {"no_qgis"}
                ELSE IF cfg.contour_shp THEN {"bad_layer", "ok"} ELSE {"no_input"}) :
         CASE o = "no_qgis" ->
                /\ pc' = "done"
                /\ cur' = Raise(cur, "QgisUnavailable")
           [] o = "no_input" ->
                /\ pc' = "done"
                /\ cur' = Raise([cur EXCEPT !.pre = @ \cup {"qgis"}], "NotFound")
           [] o = "bad_layer" ->
                /\ pc' = "done"
                /\ cur' = Raise([cur EXCEPT !.pre = @ \cup {"qgis", "open"}], "LayerInvalid")
           [] o = "ok" ->
                \E b \in BoundaryConfigs :
                  IF load_boundary_layer(b) = "raise"
                  THEN /\ pc' = "done"
                       /\ cur' = Raise([cur EXCEPT !.pre = @ \cup {"qgis", "open"}], "LayerInvalid")
                  ELSE /\ pc' = "dem_gate"
                       /\ cur' = [cur EXCEPT !.pre = @ \cup {"qgis", "open"}, !.bnd = Boundary(b)]
    /\ UNCHANGED <<fs, cfg, runs, cmd, prevOk, imgPrev, batch, call>>

run_export_dem_gate ==
    /\ pc = "dem_gate"
    /\ LET e == Exists(fs["dem"]) IN
         IF ShouldSkip(e, cur.force)
         THEN /\ pc' = "done"
              /\ cur' = Return([cur EXCEPT !.gate = "skip", !.ex = e])
         ELSE /\ pc' = "dem_prepare"
              /\ cur' = [cur EXCEPT !.gate = "gen", !.ex = e]
    /\ UNCHANGED <<fs, cfg, runs, cmd, prevOk, imgPrev, batch, call>>

\* What the function makes of a failed import of the processing modules:
\* run_export_dem re-raises it as a RuntimeError, generate_dem_from_contours
\* returns None.
OnImportError_raise(fn) == "raise"

OnImportError(fn) == IF fn = "run_export_dem" THEN "raise" ELSE "return_none"

\* The import of the processing modules and the elevation field lookup.
run_export_dem_prepare ==
    /\ pc = "dem_prepare"
    /\ \E o \in (IF cfg.processing THEN {"no_field", "ok"} ELSE {"no_processing"}) :
         CASE o = "no_processing" ->
                /\ pc' = "done"
                /\ cur' = IF OnImportError("run_export_dem") = "raise"
                          THEN Raise(cur, "ProcessingUnavailable")
                          ELSE Return(cur)
           [] o = "no_field" ->
                /\ pc' = "done"
                /\ cur' = Raise([cur EXCEPT !.extent = Extent(cur.bnd.layer), !.field = "absent"],
                                "FieldNotFound")
           [] o = "ok" ->
                /\ pc' = "dem_interp"
                /\ cur' = [cur EXCEPT !.extent = Extent(cur.bnd.layer), !.field = "present"]
    /\ UNCHANGED <<fs, cfg, runs, cmd, prevOk, imgPrev, batch, call>>

\* processing.run("qgis:tininterpolation") with OUTPUT = out_path.
run_export_dem_interp ==
    /\ pc = "dem_interp"
    /\ \E o \in ToolOutcomes :
         /\ fs' = [fs EXCEPT !["dem"] = AfterTool(@, o)]
         /\ cur' = IF o = "ok"
                   THEN Return([cur EXCEPT !.gen = @ \cup {"interp"}])
                   ELSE Raise([cur EXCEPT !.gen = @ \cup {"interp"}], "ProcessingError")
    /\ pc' = "done"
    /\ UNCHANGED <<cfg, runs, cmd, prevOk, imgPrev, batch, call>>

---------------------------------------------------------------------------
\* run_export_project and generate_dem_from_contours

\* Lines 48-85: the layers collected before the DEM convenience path. The
\* imagery and DEM layers are looked up at their configured paths only.
run_export_project_collect ==
    /\ pc = "prj_collect"
    /\ \E b \in BoundaryConfigs, extra_layers \in ExtraLayers, loads \in BOOLEAN :
         LET bnd == load_boundary_layer(b) = "layer"
             xs  == load_extras(extra_layers, 1, [NoExtras EXCEPT !.names = extra_layers])
             extra == xs.got # <<>>
             contour == cfg.contour_shp
             img == cfg.imagery_tif /\ Exists(fs["imagery"])
             dem == cfg.dem_tif /\ Exists(fs["dem"])
             ls  == (IF contour THEN {"contour"} ELSE {})
                      \cup (IF img THEN {"imagery"} ELSE {})
                      \cup (IF bnd THEN {"boundary"} ELSE {})
                      \cup (IF dem THEN {"dem"} ELSE {})
                      \cup (IF extra THEN {"extra"} ELSE {})
             c1  == [cur EXCEPT !.pre = @ \cup {"qgis", "open"}, !.layers = ls, !.bnd = Boundary(b)]
         IN  IF ~cfg.qgis
             THEN /\ pc' = "done"
                  /\ cur' = Raise(cur, "QgisUnavailable")
             ELSE IF ~loads \/ load_boundary_layer(b) = "raise"
             THEN /\ contour \/ img \/ dem \/ load_boundary_layer(b) = "raise"
                  /\ pc' = "done"
                  /\ cur' = Raise([cur EXCEPT !.pre = @ \cup {"qgis", "open"}], "LayerInvalid")
             ELSE /\ cur' = c1
                  /\ pc' = IF contour /\ ~dem THEN "prj_dem" ELSE "prj_register"
    /\ UNCHANGED <<fs, cfg, runs, cmd, prevOk, imgPrev, batch, call>>

\* generate_dem_from_contours up to its cache gate (lines 115-135).
generate_dem_from_contours_gate ==
    /\ pc = "prj_dem"
    /\ \E loaded \in BOOLEAN, has_field \in BOOLEAN :
         LET e == Exists(fs["dem"]) IN
         IF ~cfg.processing
         THEN IF OnImportError("generate_dem_from_contours") = "raise"
              THEN /\ pc' = "done"
                   /\ cur' = Raise(cur, "ProcessingUnavailable")
              ELSE /\ pc' = "prj_register"
                   /\ cur' = [cur EXCEPT !.sub = "no_processing"]
         ELSE IF ShouldSkip(e, cur.force)
              THEN /\ pc' = "prj_register"
                   /\ cur' = [cur EXCEPT !.sgate = "skip", !.sex = e, !.sub = "cached",
                                         !.extent = Extent(cur.bnd.layer),
                                         !.layers = IF loaded THEN @ \cup {"dem"} ELSE @]
              ELSE /\ pc' = "prj_interp"
                   /\ cur' = [cur EXCEPT !.sgate = "gen", !.sex = e,
                                         !.extent = Extent(cur.bnd.layer),
                                         !.field = IF has_field THEN "present" ELSE "absent"]
    /\ UNCHANGED <<fs, cfg, runs, cmd, prevOk, imgPrev, batch, call>>

\* generate_dem_from_contours, lines 137-157: the interpolation and the load
\* of its result; every failure is swallowed and yields no DEM layer.
generate_dem_from_contours_interp ==
    /\ pc = "prj_interp"
    /\ \E o \in ToolOutcomes, loaded \in BOOLEAN :
         /\ fs' = [fs EXCEPT !["dem"] = AfterTool(@, o)]
         /\ cur' = [cur EXCEPT !.gen = @ \cup {"interp"},
                               !.sub = IF o = "ok" THEN "generated" ELSE "failed",
                               !.layers = IF o = "ok" /\ loaded THEN @ \cup {"dem"} ELSE @]
    /\ pc' = "prj_register"
    /\ UNCHANGED <<cfg, runs, cmd, prevOk, imgPrev, batch, call>>

\* Lines 97-104: the "no layers" failure and the insertion of every layer
\* into the process-wide registry, before the cache gate.
run_export_project_register ==
    /\ pc = "prj_register"
    /\ IF NoLayers(cur.layers)
       THEN /\ pc' = "done"
            /\ cur' = Raise(cur, "NoLayers")
       ELSE /\ pc' = "prj_gate"
            /\ cur' = [cur EXCEPT !.pre = @ \cup {"register"}]
    /\ UNCHANGED <<fs, cfg, runs, cmd, prevOk, imgPrev, batch, call>>

run_export_project_gate ==
    /\ pc = "prj_gate"
    /\ LET e == Exists(fs["project"]) IN
         IF ShouldSkip(e, cur.force)
         THEN /\ pc' = "done"
              /\ cur' = Return([cur EXCEPT !.gate = "skip", !.ex = e])
         ELSE /\ pc' = "prj_write"
              /\ cur' = [cur EXCEPT !.gate = "gen", !.ex = e]
    /\ UNCHANGED <<fs, cfg, runs, cmd, prevOk, imgPrev, batch, call>>

run_export_project_write ==
    /\ pc = "prj_write"
    /\ \E ok \in BOOLEAN :
         IF ok
         THEN /\ fs' = [fs EXCEPT !["project"] = Written("full")]
              /\ cur' = Return([cur EXCEPT !.gen = @ \cup {"write"}])
         ELSE /\ fs' = fs
              /\ cur' = Raise([cur EXCEPT !.gen = @ \cup {"write"}], "WriteError")
    /\ pc' = "done"
    /\ UNCHANGED <<cfg, runs, cmd, prevOk, imgPrev, batch, call>>

---------------------------------------------------------------------------
\* run_export_imagery

\* Lines 286-293: the provider configuration check.
run_export_imagery_config ==
    /\ pc = "img_config"
    /\ IF cfg.provider \in {"wms", "xyz"}
       THEN /\ pc' = "img_load"
            /\ cur' = cur
       ELSE /\ pc' = "done"
            /\ cur' = Raise(cur, "UnsupportedProvider")
    /\ UNCHANGED <<fs, cfg, runs, cmd, prevOk, imgPrev, batch, call>>

\* Lines 295-337: ensure_qgis, the remote imagery layer and the boundary
\* layer are opened and both are inserted into the process-wide registry.
run_export_imagery_load ==
    /\ pc = "img_load"
    /\ \E o \in (IF cfg.qgis THEN {"bad_layer", "no_boundary", "ok"} ELSE {"no_qgis"}) :
         CASE o = "no_qgis" ->
                /\ pc' = "done"
                /\ cur' = Raise(cur, "QgisUnavailable")
           [] o = "bad_layer" ->
                /\ pc' = "done"
                /\ cur' = Raise([cur EXCEPT !.pre = @ \cup {"qgis", "open"}], "RemoteSourceInvalid")
           [] o = "no_boundary" ->
                /\ pc' = "done"
                /\ cur' = Raise([cur EXCEPT !.pre = @ \cup {"qgis", "open"}], "BoundaryNotFound")
           [] o = "ok" ->
                /\ pc' = "img_probe"
                /\ cur' = [cur EXCEPT !.pre = @ \cup {"qgis", "open", "register"},
                                      !.log = @ \o <<"Boundary CRS", "Boundary extent">>]
    /\ UNCHANGED <<fs, cfg, runs, cmd, prevOk, imgPrev, batch, call>>

\* Lines 339-350: destination CRS and extent, and for the xyz provider the
\* tile probe (test_xyz_tile), one network request.
run_export_imagery_probe ==
    /\ pc = "img_probe"
    /\ IF cfg.provider = "xyz"
       THEN \E r \in Replies :
              IF test_xyz_tile(r) = "ok"
              THEN /\ pc' = "img_gate"
                   /\ cur' = [cur EXCEPT !.pre = @ \cup {"probe"}, !.probe = r,
                                         !.log = @ \o <<"XYZ tile test OK", "Imagery CRS", "Imagery extent">>]
              ELSE /\ pc' = "done"
                   /\ cur' = Raise([cur EXCEPT !.pre = @ \cup {"probe"}, !.probe = r], "NetworkError")
       ELSE /\ pc' = "img_gate"
            /\ cur' = [cur EXCEPT !.log = @ \o <<"Imagery CRS", "Imagery extent">>]
    /\ UNCHANGED <<fs, cfg, runs, cmd, prevOk, imgPrev, batch, call>>

run_export_imagery_gate ==
    /\ pc = "img_gate"
    /\ LET e == Exists(fs["imagery"]) IN
         IF ShouldSkip(e, cur.force)
         THEN /\ pc' = "done"
              /\ cur' = Return([cur EXCEPT !.gate = "skip", !.ex = e])
         ELSE /\ pc' = "img_render"
              /\ cur' = [cur EXCEPT !.gate = "gen", !.ex = e,
                                    !.log = @ \o <<"Imagery output target", "Imagery output dir">>]
    /\ UNCHANGED <<fs, cfg, runs, cmd, prevOk, imgPrev, batch, call>>

\* Leaving a `with tempfile.TemporaryDirectory()` block, by its end or by
\* an exception: the directory and what is in it are removed. The outer
\* directory (line 359) holds wms_bbox.tif, the inner one (line 189)
\* render.png.
TemporaryDirectory_leak(files, dir) == files

TemporaryDirectory_exit(files, dir) ==
    IF dir = "outer"
    THEN [files EXCEPT !["tmp_tif"] = NoFile]
    ELSE [files EXCEPT !["tmp_png"] = NoFile]

\* Line 374 onwards: the temporary raster is there.
Acquired(c) ==
    [c EXCEPT !.raw = Written("raw"), !.log = @ \o <<"Temp imagery written">>]

AfterAcquire == IF cfg.keep_temp THEN "img_debug" ELSE "img_clip1"

\* Lines 361-363: render_wms_to_geotiff into the temporary raster. When
\* it raises, whatever it wrote stays and the fallback is called.
run_export_imagery_render ==
    /\ pc = "img_render"
    /\ \E o \in {"primary", "fail", "fail_partial"} :
         IF o = "primary"
         THEN /\ pc' = AfterAcquire
              /\ fs' = [fs EXCEPT !["tmp_tif"] = Written("raw")]
              /\ cur' = Acquired([cur EXCEPT !.gen = @ \cup {"render"}])
         ELSE /\ pc' = "img_fallback"
              /\ fs' = [fs EXCEPT !["tmp_tif"] = AfterTool(@, o)]
              /\ cur' = [cur EXCEPT !.gen = @ \cup {"render"}]
    /\ UNCHANGED <<cfg, runs, cmd, prevOk, imgPrev, batch, call>>

\* fallback_render_to_geotiff, lines 169-191: the in-process render job
\* and the save of its image into a directory of its own. An exception
\* before line 189 leaves run_export_imagery through the outer directory.
fallback_render_to_geotiff_image ==
    /\ pc = "img_fallback"
    /\ \E ok \in BOOLEAN :
         IF ok
         THEN /\ pc' = "img_translate"
              /\ fs' = [fs EXCEPT !["tmp_png"] = Written("png")]
              /\ cur' = cur
         ELSE /\ pc' = "done"
              /\ fs' = TemporaryDirectory_exit(fs, "outer")
              /\ cur' = Raise(cur, "RenderError")
    /\ UNCHANGED <<cfg, runs, cmd, prevOk, imgPrev, batch, call>>

\* fallback_render_to_geotiff, lines 193-212: gdal_translate is located
\* and run on the saved image; the inner directory is left in every case,
\* the outer one when the step raises.
fallback_render_to_geotiff_translate ==
    /\ pc = "img_translate"
    /\ \E o \in {"not_located", "unlaunchable", "exit_nonzero", "exit_zero"} :
         IF o = "exit_zero"
         THEN /\ pc' = AfterAcquire
              /\ fs' = TemporaryDirectory_exit([fs EXCEPT !["tmp_tif"] = Written("raw")], "inner")
              /\ cur' = Acquired(cur)
         ELSE /\ pc' = "done"
              /\ fs' = TemporaryDirectory_exit(TemporaryDirectory_exit(fs, "inner"), "outer")
              /\ cur' = Raise(cur, CASE o = "not_located"  -> "ToolUnavailable"
                                      [] o = "unlaunchable" -> "OSError"
                                      [] o = "exit_nonzero" -> "CalledProcessError")
    /\ UNCHANGED <<cfg, runs, cmd, prevOk, imgPrev, batch, call>>

\* What a clipping routine may leave at the output path: a routine that
\* reports success wrote the clipped raster or nothing, one that fails
\* wrote nothing or a part of it.
ClipWrites(ok) == IF ok THEN {"full", "none"} ELSE {"partial", "none"}

AfterClip(c, w, stage) ==
    CASE w = "full"    -> Written(stage)
      [] w = "partial" -> Written("partial")
      [] w = "none"    -> c

\* `if not clipped or not out_path.exists()`: the next stage is needed.
FallsThrough(clipped, exists) == ~clipped \/ ~exists

Attempt(stage, out, exists) == [s |-> stage, out |-> out, ex |-> exists]

\* Line 382 and clip_with_processing (lines 215-242): every exception of
\* the routine is caught and reported as False.
clip_with_processing ==
    /\ pc = "img_clip1"
    /\ \E ok \in (IF cfg.processing THEN BOOLEAN ELSE {FALSE}) :
         \E w \in (IF cfg.processing THEN ClipWrites(ok) ELSE {"none"}) :
           LET c == AfterClip(fs["imagery"], w, "clip1") IN
           /\ fs' = [fs EXCEPT !["imagery"] = c]
           /\ cur' = [cur EXCEPT !.gen = @ \cup {"clip1"},
                                 !.chain = Append(@, Attempt("processing", IF ok THEN "ok" ELSE "fail", Exists(c)))]
           /\ pc' = IF FallsThrough(ok, Exists(c)) THEN "img_clip2" ELSE "img_finish"
    /\ UNCHANGED <<cfg, runs, cmd, prevOk, imgPrev, batch, call>>

\* Lines 383-390 and clip_with_gdalwarp (lines 245-272). The tool is not
\* located, or the mask has no source: False without a process. The
\* process exits non-zero: CalledProcessError is caught, False. The located
\* path cannot be launched (an override that does not exist): subprocess.run
\* raises an OSError, which is not caught and leaves run_export_imagery
\* through the temporary-directory block.
clip_with_gdalwarp ==
    /\ pc = "img_clip2"
    /\ \E o \in {"not_located", "no_mask_source", "exit_zero", "exit_nonzero", "unlaunchable"} :
         CASE o \in {"not_located", "no_mask_source"} ->
                /\ fs' = fs
                /\ cur' = [cur EXCEPT !.chain = Append(@, Attempt("gdalwarp", "fail", Exists(fs["imagery"])))]
                /\ pc' = "img_copy"
           [] o = "unlaunchable" ->
                /\ fs' = TemporaryDirectory_exit(fs, "outer")
                /\ cur' = Raise([cur EXCEPT !.chain = Append(@, Attempt("gdalwarp", "raise", Exists(fs["imagery"])))],
                                "OSError")
                /\ pc' = "done"
           [] o \in {"exit_zero", "exit_nonzero"} ->
                LET ok == (o = "exit_zero") IN
                \E w \in ClipWrites(ok) :
                  LET c == AfterClip(fs["imagery"], w, "clip2") IN
                  /\ fs' = [fs EXCEPT !["imagery"] = c]
                  /\ cur' = [cur EXCEPT !.gen = @ \cup {"clip2"},
                                        !.chain = Append(@, Attempt("gdalwarp", IF ok THEN "ok" ELSE "fail", Exists(c)))]
                  /\ pc' = IF FallsThrough(ok, Exists(c)) THEN "img_copy" ELSE "img_finish"
    /\ UNCHANGED <<cfg, runs, cmd, prevOk, imgPrev, batch, call>>

\* shutil.copy2(src, dst): dst holds the bytes of src, whatever it held.
copy2_keepExisting(src, dst) == IF Exists(dst) THEN dst ELSE src

copy2(src, dst) == src

\* What a copy that raises (the source is missing, the destination cannot
\* be written, the disk is full) leaves at the destination.
CopyFailures == {"fail", "fail_partial"}

\* Lines 391-392: the last resort. When copy2 raises, the exception
\* leaves run_export_imagery through the temporary-directory block.
run_export_imagery_copy ==
    /\ pc = "img_copy"
    /\ \/ /\ Exists(fs["tmp_tif"])
          /\ fs' = [fs EXCEPT !["imagery"] = copy2(fs["tmp_tif"], @)]
          /\ cur' = [cur EXCEPT !.gen = @ \cup {"copy"},
                                !.chain = Append(@, Attempt("copy", "ok", TRUE))]
          /\ pc' = "img_finish"
       \/ \E o \in CopyFailures :
            LET c == AfterTool(fs["imagery"], o) IN
            /\ fs' = TemporaryDirectory_exit([fs EXCEPT !["imagery"] = c], "outer")
            /\ cur' = Raise([cur EXCEPT !.gen = @ \cup {"copy"},
                                        !.chain = Append(@, Attempt("copy", "raise", Exists(c)))],
                            "OSError")
            /\ pc' = "done"
    /\ UNCHANGED <<cfg, runs, cmd, prevOk, imgPrev, batch, call>>

\* Lines 375-381: with KEEP_TEMP_IMAGERY set the temporary raster is
\* copied to the debug path before the clip chain.
run_export_imagery_debug ==
    /\ pc = "img_debug"
    /\ \/ /\ Exists(fs["tmp_tif"])
          /\ fs' = [fs EXCEPT !["debug"] = copy2(fs["tmp_tif"], @)]
          /\ cur' = [cur EXCEPT !.log = @ \o <<"Temp imagery copied">>]
          /\ pc' = "img_clip1"
       \/ \E o \in CopyFailures :
            /\ fs' = TemporaryDirectory_exit([fs EXCEPT !["debug"] = AfterTool(@, o)], "outer")
            /\ cur' = Raise(cur, "OSError")
            /\ pc' = "done"
    /\ UNCHANGED <<cfg, runs, cmd, prevOk, imgPrev, batch, call>>

\* log_raster_stats (lines 437-449): gdalinfo from PATH; when it is missing
\* or fails nothing is printed. The printed range is that of the raster's
\* first band, data this model does not hold.
StatsLines == {<<>>, <<"Imagery stats">>, <<"Imagery stats", "Warning: imagery appears blank">>}

\* Lines 393-396: the temporary directory is gone, the existence check,
\* the statistics log and the return.
run_export_imagery_finish ==
    /\ pc = "img_finish"
    /\ fs' = TemporaryDirectory_exit(fs, "outer")
    /\ IF ~Exists(fs["imagery"])
       THEN cur' = Raise(cur, "NoOutput")
       ELSE \E st \in StatsLines : cur' = Return([cur EXCEPT !.log = @ \o st])
    /\ pc' = "done"
    /\ UNCHANGED <<cfg, runs, cmd, prevOk, imgPrev, batch, call>>

\* Which strategy produced the output of a run that went through the chain.
ProducedBy(chain) == IF chain = <<>> THEN "none" ELSE chain[Len(chain)].s

---------------------------------------------------------------------------
\* main(), after a producer has returned or raised.

\* export-all, lines 130-152: the next producer is called only when the
\* one before it returned.
main_next ==
    /\ pc = "done"
    /\ cmd.name = "export-all"
    /\ cur.res = "ret"
    /\ NextProducer(cur.prod) # "none"
    /\ LET p == NextProducer(cur.prod) IN
         /\ fs' = Age(fs)
         /\ cur' = NewRun(p, cmd.force, fs')
         /\ pc' = FirstPc(p)
         /\ batch' = [batch EXCEPT !.attempted = @ \cup {p}]
    /\ prevOk' = Summary(cur)
    /\ UNCHANGED <<cfg, runs, cmd, imgPrev, call>>

LastOfCommand == ~(cmd.name = "export-all" /\ cur.res = "ret" /\ NextProducer(cur.prod) # "none")

\* The command returns, or the exception of a producer ends main().
main_exit ==
    /\ pc = "done"
    /\ LastOfCommand
    /\ pc' = "exit"
    /\ prevOk' = Summary(cur)
    /\ batch' = IF cur.res = "raise" THEN [batch EXCEPT !.failed = @ \cup {cur.prod}] ELSE batch
    /\ cur' = NoRun
    /\ UNCHANGED <<fs, cfg, runs, cmd, imgPrev, call>>

\* The process is over; the files it wrote are now files of an earlier run.
process_exit ==
    /\ pc = "exit"
    /\ pc' = "idle"
    /\ fs' = Age(fs)
    /\ cmd' = NoCommand
    /\ batch' = NoBatch
    /\ UNCHANGED <<cfg, runs, cur, prevOk, imgPrev, call>>

---------------------------------------------------------------------------
\* The imagery command run repeatedly, each run that went through the clip
\* chain compared with what an earlier such run exposed to its caller: the
\* returned path (the same configured path in every run) and the lines
\* printed.

main_imagery == main_command({"export-imagery"})

Exposed(c) == [how |-> ProducedBy(c.chain), force |-> c.force, log |-> c.log]

main_exit_observed ==
    /\ pc = "done"
    /\ LastOfCommand
    /\ pc' = "exit"
    /\ prevOk' = Summary(cur)
    /\ batch' = IF cur.res = "raise" THEN [batch EXCEPT !.failed = @ \cup {cur.prod}] ELSE batch
    /\ imgPrev' = IF cur.res = "ret" /\ cur.chain # <<>> /\ imgPrev.how = "none"
                  THEN Exposed(cur)
                  ELSE imgPrev
    /\ cur' = NoRun
    /\ UNCHANGED <<fs, cfg, runs, cmd, call>>

NextImagery ==
    \/ main_imagery
    \/ run_export_imagery_config
    \/ run_export_imagery_load
    \/ run_export_imagery_probe
    \/ run_export_imagery_gate
    \/ run_export_imagery_render
    \/ fallback_render_to_geotiff_image
    \/ fallback_render_to_geotiff_translate
    \/ run_export_imagery_debug
    \/ clip_with_processing
    \/ clip_with_gdalwarp
    \/ run_export_imagery_copy
    \/ run_export_imagery_finish
    \/ main_exit_observed
    \/ process_exit

SpecImagery == Init /\ [][NextImagery]_vars

---------------------------------------------------------------------------
\* The helper functions of the exporters, each applied on its own to
\* arguments drawn from a bounded set.  An optional value (None or a value)
\* is the empty or the one-element sequence.

None == <<>>
Some(v) == <<v>>

\* Python truthiness of an optional number: None and 0.0 are false.
Truthy(x) == x # None /\ x[1] # 0

\* Elevations and intervals are decimal numbers; the model holds them as
\* integers in units of 1e-7.
Feet(n) == n * 10000000

\* `< 1e-6`, as its inverse.
ToleranceInverse == 1000000

\* The filter clause of line 87.
FilterClause(z_field, interval) ==
    [op |-> "near_multiple", field |-> z_field, interval |-> interval,
     tolerance_inverse |-> ToleranceInverse]

build_sql_mergeDropsFilter(layer_name, z_field, contour_interval, merge_fragments) ==
    IF ~(Truthy(contour_interval) \/ merge_fragments) THEN None
    ELSE IF merge_fragments
         THEN Some([select |-> "linemerge", from |-> layer_name, where |-> <<>>,
                    group |-> <<z_field>>])
         ELSE Some([select |-> "star", from |-> layer_name,
                    where |-> <<FilterClause(z_field, contour_interval[1])>>, group |-> <<>>])

\* build_sql: the query as its parts instead of its text.
build_sql(layer_name, z_field, contour_interval, merge_fragments) ==
    IF ~(Truthy(contour_interval) \/ merge_fragments) THEN None
    ELSE LET clauses == IF Truthy(contour_interval)
                        THEN <<FilterClause(z_field, contour_interval[1])>>
                        ELSE <<>>
         IN  IF merge_fragments
             THEN Some([select |-> "linemerge", from |-> layer_name, where |-> clauses,
                        group |-> <<z_field>>])
             ELSE Some([select |-> "star", from |-> layer_name, where |-> clauses,
                        group |-> <<>>])

\* Lines 147-148: the arguments the query adds to the ogr2ogr command.
SqlArgs(sql) == IF sql = None THEN <<>> ELSE <<"-dialect", "sqlite", "-sql", sql[1]>>

Intervals == {None, Some(0), Some(Feet(1)), Some(Feet(2)), Some(5000000)}

call_build_sql ==
    /\ call = NoCall
    /\ \E interval \in Intervals, merge \in BOOLEAN, z \in {"Contour", "ELEV"} :
         LET sql == build_sql("contours", z, interval, merge) IN
         call' = [fn |-> "build_sql", z_field |-> z, interval |-> interval, merge |-> merge,
                  sql |-> sql, args |-> SqlArgs(sql)]
    /\ UNCHANGED <<fs, cfg, runs, cmd, pc, cur, prevOk, imgPrev, batch>>

\* What the sqlite dialect does with the query on the rows of the layer,
\* each row given by the value of its elevation field.
\* ABS((z / i) - ROUND(z / i)) < 1e-6: the distance of z to the nearest
\* multiple of i, divided by i, is below the tolerance. A division by zero
\* is NULL in sqlite and selects nothing.
Near_exact(z, i) == IF i = 0 THEN FALSE ELSE z % i = 0

Near(z, i) ==
    IF i = 0 THEN FALSE
    ELSE LET m == z % i
             d == IF m <= i - m THEN m ELSE i - m
         IN  d <= (i - 1) \div ToleranceInverse

Passes(z, where) == \A k \in 1..Len(where) : Near(z, where[k].interval)

Range(seq) == {seq[k] : k \in 1..Len(seq)}

\* The rows the WHERE clause keeps, and the features that come out: with
\* GROUP BY one per distinct value of the field, otherwise one per row.
RunQuery(sql, rows) ==
    IF sql = None
    THEN [selected |-> rows, features |-> Len(rows)]
    ELSE LET Keep(z) == Passes(z, sql[1].where)
             kept == SelectSeq(rows, Keep)
         IN  [selected |-> kept,
              features |-> IF sql[1].group # <<>> THEN Cardinality(Range(kept)) ELSE Len(kept)]

\* Number of rows of the contour layers explored.
MaxRows == 4

\* 100, 100.0000001, 100.000002, 100.5, 101 and 102.
Elevations == {Feet(100), Feet(100) + 1, Feet(100) + 20, Feet(100) + 5000000, Feet(101), Feet(102)}

Layers == UNION {[1..n -> Elevations] : n \in 0..MaxRows}

call_ogr2ogr_sql ==
    /\ call = NoCall
    /\ \E interval \in Intervals, merge \in BOOLEAN, rows \in Layers :
         LET sql == build_sql("contours", "Contour", interval, merge)
             res == RunQuery(sql, rows)
         IN  call' = [fn |-> "ogr2ogr_sql", interval |-> interval, merge |-> merge, rows |-> rows,
                      selected |-> res.selected, features |-> res.features]
    /\ UNCHANGED <<fs, cfg, runs, cmd, pc, cur, prevOk, imgPrev, batch>>

---------------------------------------------------------------------------
\* normalize_input_path. A file path is its stem and its suffix (the
\* directory is the same for a file and its siblings).

Suffixes == {".shx", ".SHX", ".Shx", ".shp", ".SHP", ".dbf", ""}

\* str.lower() on the suffixes.
lower(sfx) ==
    CASE sfx \in {".shx", ".SHX", ".Shx"} -> ".shx"
      [] sfx \in {".shp", ".SHP"}         -> ".shp"
      [] OTHER                            -> sfx

with_suffix(path, sfx) == [path EXCEPT !.suffix = sfx]

normalize_input_path_caseSensitive(input_path, exists) ==
    IF input_path.suffix = ".shx" /\ with_suffix(input_path, ".shp") \in exists
    THEN with_suffix(input_path, ".shp")
    ELSE input_path

normalize_input_path(input_path, exists) ==
    IF lower(input_path.suffix) = ".shx"
    THEN LET shp_path == with_suffix(input_path, ".shp") IN
         IF shp_path \in exists THEN shp_path ELSE input_path
    ELSE input_path

FilePaths == [stem : {"contours", "parcels"}, suffix : Suffixes]

\* The files that may be on disk next to the input.
OnDisk ==
    {[stem |-> "contours", suffix |-> ".shp"], [stem |-> "contours", suffix |-> ".shx"],
     [stem |-> "contours", suffix |-> ".SHX"], [stem |-> "contours", suffix |-> ".SHP"],
     [stem |-> "parcels", suffix |-> ".shx"], [stem |-> "parcels", suffix |-> ".dbf"]}

call_normalize_input_path ==
    /\ call = NoCall
    /\ \E input_path \in FilePaths, exists \in SUBSET OnDisk :
         call' = [fn |-> "normalize_input_path", input_path |-> input_path, exists |-> exists,
                  out |-> normalize_input_path(input_path, exists)]
    /\ UNCHANGED <<fs, cfg, runs, cmd, pc, cur, prevOk, imgPrev, batch>>

---------------------------------------------------------------------------
\* resolve_path (dem_export.py, project_export.py) and the same steps in
\* run_export_contours, lines 111-113. A path string is whether it starts
\* with the separator and its segments; a Path is whether it is absolute
\* and its parts, the "." segments dropped.

PathString(lead, segs) == [lead |-> lead, segs |-> segs]
EmptyString == PathString(FALSE, <<>>)

NotDot(seg) == seg # "."

Path(str) == [abs |-> str.lead, parts |-> SelectSeq(str.segs, NotDot)]

is_absolute(path) == path.abs

\* project_dir / candidate
joinpath(a, b) == IF b.abs THEN b ELSE [abs |-> a.abs, parts |-> a.parts \o b.parts]

resolve_path(project_dir, path_str) ==
    IF path_str = EmptyString THEN None
    ELSE LET candidate == Path(path_str) IN
         Some(IF ~is_absolute(candidate) THEN joinpath(project_dir, candidate) ELSE candidate)

\* QGIS_PROJECT_DIR: unset for the contour exporter ("."), an absolute
\* directory, a directory relative to the working directory.
ProjectDirs ==
    {PathString(FALSE, <<".">>), PathString(TRUE, <<"srv", "site">>),
     PathString(TRUE, <<>>), PathString(FALSE, <<"site">>), PathString(FALSE, <<"..", "site">>)}

PathStrings ==
    {EmptyString, PathString(FALSE, <<"contours.shp">>), PathString(FALSE, <<".", "contours.shp">>),
     PathString(FALSE, <<"gis", "contours.shp">>), PathString(TRUE, <<"data", "contours.shp">>),
     PathString(TRUE, <<"data", ".", "dem.tif">>), PathString(FALSE, <<"output", "dem.tif">>)}

call_resolve_path ==
    /\ call = NoCall
    /\ \E root \in ProjectDirs, path_str \in PathStrings :
         call' = [fn |-> "resolve_path", root |-> root, path_str |-> path_str,
                  out |-> resolve_path(Path(root), path_str)]
    /\ UNCHANGED <<fs, cfg, runs, cmd, pc, cur, prevOk, imgPrev, batch>>

---------------------------------------------------------------------------
\* find_ogr2ogr, find_gdalwarp, find_gdal_translate: the same function
\* for three tool names. A path is the sequence of its parts; the result
\* of shutil.which and the set of existing files are arguments here.

NonEmpty(x) == x # None /\ x[1] # <<>>

name(path) == IF path = <<>> THEN "" ELSE path[Len(path)]
parent(path) == IF path = <<>> THEN <<>> ELSE SubSeq(path, 1, Len(path) - 1)

Exe(tool) ==
    CASE tool = "ogr2ogr"        -> "ogr2ogr.exe"
      [] tool = "gdalwarp"       -> "gdalwarp.exe"
      [] tool = "gdal_translate" -> "gdal_translate.exe"

find_tool_pathFirst(tool, explicit_path, qgis_prefix, which, exists) ==
    IF which # None THEN which
    ELSE IF NonEmpty(explicit_path) THEN explicit_path
    ELSE None

find_tool(tool, explicit_path, qgis_prefix, which, exists) ==
    IF NonEmpty(explicit_path) THEN explicit_path
    ELSE IF which # None THEN which
    ELSE IF ~NonEmpty(qgis_prefix) THEN None
    ELSE LET prefix == qgis_prefix[1]
             mac_candidate == prefix \o <<"bin", tool>>
         IN  IF mac_candidate \in exists THEN Some(mac_candidate)
             ELSE IF name(prefix) = "qgis" /\ name(parent(prefix)) = "apps"
                  THEN LET root == parent(parent(prefix))
                           win_candidate == root \o <<"bin", Exe(tool)>>
                           nix_candidate == root \o <<"bin", tool>>
                       IN  IF win_candidate \in exists THEN Some(win_candidate)
                           ELSE IF nix_candidate \in exists THEN Some(nix_candidate)
                           ELSE None
                  ELSE None

find_ogr2ogr(explicit_path, qgis_prefix, which, exists) ==
    find_tool("ogr2ogr", explicit_path, qgis_prefix, which, exists)

find_gdalwarp(explicit_path, qgis_prefix, which, exists) ==
    find_tool("gdalwarp", explicit_path, qgis_prefix, which, exists)

find_gdal_translate(explicit_path, qgis_prefix, which, exists) ==
    find_tool("gdal_translate", explicit_path, qgis_prefix, which, exists)

Tools == {"ogr2ogr", "gdalwarp", "gdal_translate"}

Find(tool, explicit_path, qgis_prefix, which, exists) ==
    CASE tool = "ogr2ogr"        -> find_ogr2ogr(explicit_path, qgis_prefix, which, exists)
      [] tool = "gdalwarp"       -> find_gdalwarp(explicit_path, qgis_prefix, which, exists)
      [] tool = "gdal_translate" -> find_gdal_translate(explicit_path, qgis_prefix, which, exists)

\* QGIS_PREFIX_PATH: unset, empty, a bundled-application layout, a
\* package-root "apps" layout, and two that are neither.
Prefixes ==
    {None, Some(<<>>), Some(<<"Applications", "QGIS.app", "Contents", "MacOS">>),
     Some(<<"OSGeo4W", "apps", "qgis">>), Some(<<"opt", "qgis">>), Some(<<"apps", "qgis">>)}

Overrides(tool) == {None, Some(<<>>), Some(<<"opt", "gdal", tool>>)}

OnPath(tool) == {None, Some(<<"usr", "bin", tool>>)}

\* The files the function may probe for a prefix.
Probed(tool, qgis_prefix) ==
    IF ~NonEmpty(qgis_prefix) THEN {}
    ELSE {qgis_prefix[1] \o <<"bin", tool>>,
          parent(parent(qgis_prefix[1])) \o <<"bin", Exe(tool)>>,
          parent(parent(qgis_prefix[1])) \o <<"bin", tool>>}

call_find_tool ==
    /\ call = NoCall
    /\ \E tool \in Tools, qgis_prefix \in Prefixes :
         \E explicit_path \in Overrides(tool), which \in OnPath(tool),
            exists \in SUBSET Probed(tool, qgis_prefix) :
           call' = [fn |-> "find_tool", tool |-> tool, explicit_path |-> explicit_path,
                    qgis_prefix |-> qgis_prefix, which |-> which, exists |-> exists,
                    out |-> Find(tool, explicit_path, qgis_prefix, which, exists)]
    /\ UNCHANGED <<fs, cfg, runs, cmd, pc, cur, prevOk, imgPrev, batch>>

---------------------------------------------------------------------------
\* run_export_imagery, lines 339-346: the destination CRS and the extent
\* handed to the acquisition.

KnownCrs == {"EPSG:2269", "EPSG:3857"}

\* QgsCoordinateReferenceSystem(definition): invalid for a definition that
\* names no CRS.
QgsCoordinateReferenceSystem(definition) ==
    IF definition \in KnownCrs THEN definition ELSE "invalid"

isValid(crs) == crs # "invalid"

\* The extent is a box together with the CRS its coordinates are in.
acquisition_request(boundary_crs, imagery_output_crs) ==
    LET plain == [dest_crs |-> boundary_crs, extent_crs |-> boundary_crs, transformed |-> FALSE] IN
    IF imagery_output_crs # None /\ imagery_output_crs[1] # ""
    THEN LET dest_crs == QgsCoordinateReferenceSystem(imagery_output_crs[1]) IN
         IF isValid(dest_crs) /\ boundary_crs # dest_crs
         THEN [dest_crs |-> dest_crs, extent_crs |-> dest_crs, transformed |-> TRUE]
         ELSE [plain EXCEPT !.dest_crs = dest_crs]
    ELSE plain

OutputCrsSettings == {None, Some("")} \cup {Some(c) : c \in KnownCrs \cup {"EPSG:0"}}

call_acquisition_request ==
    /\ call = NoCall
    /\ \E boundary_crs \in KnownCrs, imagery_output_crs \in OutputCrsSettings :
         call' = [fn |-> "acquisition_request", boundary_crs |-> boundary_crs,
                  imagery_output_crs |-> imagery_output_crs,
                  request |-> acquisition_request(boundary_crs, imagery_output_crs)]
    /\ UNCHANGED <<fs, cfg, runs, cmd, pc, cur, prevOk, imgPrev, batch>>

\* run_export_contours, lines 97-106 and 132-146: the elevation field, the
\* interval and the merge flag that reach the query and the command.

\* An argument the caller leaves out takes the default of the signature.
Default(arg, default) == IF arg = None THEN default ELSE arg[1]

\* load_env, lines 49-64, of the three settings.
contour_env(environ) ==
    [contour_z_field  |-> Default(environ.CONTOUR_Z_FIELD, "Contour"),
     contour_interval |-> IF environ.OUTPUT_CONTOUR_INTERVAL # None
                          THEN environ.OUTPUT_CONTOUR_INTERVAL ELSE None,
     merge_fragments  |-> environ.OUTPUT_MERGE_FRAGMENTS]

contour_parameters(args, environ) ==
    LET env == contour_env(environ)
        z_field == Default(args.z_field, "Contour")
        contour_interval == Default(args.contour_interval, None)
        merge_fragments == Default(args.merge_fragments, None)
        z == IF z_field # "" THEN z_field ELSE env.contour_z_field
        interval == IF contour_interval # None THEN contour_interval ELSE env.contour_interval
        merge == IF merge_fragments # None THEN merge_fragments[1]
                 ELSE env.merge_fragments # None /\ env.merge_fragments[1]
    IN  [zfield |-> z, interval |-> interval, merge |-> merge,
         sql |-> build_sql("contours", z, interval, merge)]

\* None: the caller gives no such argument. Otherwise the value given (for
\* the interval and the flag, an optional value again).
ContourArgs ==
    [z_field : {None, Some("ELEV")},
     contour_interval : {None, Some(Some(Feet(2)))},
     merge_fragments : {None, Some(Some(TRUE)), Some(Some(FALSE))}]

Environs ==
    [CONTOUR_Z_FIELD : {None, Some("Z")},
     OUTPUT_CONTOUR_INTERVAL : {None, Some(Feet(1))},
     OUTPUT_MERGE_FRAGMENTS : {None, Some(TRUE), Some(FALSE)}]

call_contour_parameters ==
    /\ call = NoCall
    /\ \E args \in ContourArgs, environ \in Environs :
         call' = [fn |-> "contour_parameters", args |-> args, environ |-> environ,
                  used |-> contour_parameters(args, environ)]
    /\ UNCHANGED <<fs, cfg, runs, cmd, pc, cur, prevOk, imgPrev, batch>>

\* Lines 55-98 of run_export_project as a function of the layers found
\* before the extras and of what each configured extra layer's load does.
CoreLayers == SUBSET {<<"contour", 0>>, <<"dem", 0>>}

call_collect_layers ==
    /\ call = NoCall
    /\ \E core \in CoreLayers, extra_layers \in ExtraLayers :
         LET xs == load_extras(extra_layers, 1, [NoExtras EXCEPT !.names = extra_layers])
             layers == core \cup {<<"extra", k>> : k \in Range(xs.got)}
         IN  call' = [fn |-> "collect_layers", core |-> core, extras |-> xs,
                      layers |-> layers, raised |-> NoLayers(layers)]
    /\ UNCHANGED <<fs, cfg, runs, cmd, pc, cur, prevOk, imgPrev, batch>>

Next ==
    \/ main
    \/ run_export_contours_input
    \/ run_export_contours_gate
    \/ run_export_contours_tool
    \/ run_export_contours_run
    \/ run_export_dem_load
    \/ run_export_dem_gate
    \/ run_export_dem_prepare
    \/ run_export_dem_interp
    \/ run_export_project_collect
    \/ generate_dem_from_contours_gate
    \/ generate_dem_from_contours_interp
    \/ run_export_project_register
    \/ run_export_project_gate
    \/ run_export_project_write
    \/ run_export_imagery_config
    \/ run_export_imagery_load
    \/ run_export_imagery_probe
    \/ run_export_imagery_gate
    \/ run_export_imagery_render
    \/ fallback_render_to_geotiff_image
    \/ fallback_render_to_geotiff_translate
    \/ run_export_imagery_debug
    \/ clip_with_processing
    \/ clip_with_gdalwarp
    \/ run_export_imagery_copy
    \/ run_export_imagery_finish
    \/ main_next
    \/ main_exit
    \/ process_exit

Spec == Init /\ [][Next]_vars

\* The helper functions applied on their own, no command running.
InitLib ==
    /\ Init
    /\ cfg = [provider |-> "wms", dem_tif |-> TRUE, imagery_tif |-> TRUE, contour_shp |-> TRUE,
              qgis |-> TRUE, processing |-> TRUE, keep_temp |-> FALSE]

\* The function has returned.
call_return ==
    /\ call # NoCall
    /\ call' = NoCall
    /\ UNCHANGED <<fs, cfg, runs, cmd, pc, cur, prevOk, imgPrev, batch>>

NextLib ==
    \/ call_collect_layers
    \/ call_acquisition_request
    \/ call_contour_parameters
    \/ call_return
    \/ call_build_sql
    \/ call_ogr2ogr_sql
    \/ call_normalize_input_path
    \/ call_resolve_path
    \/ call_find_tool

SpecLib == InitLib /\ [][NextLib]_vars

---------------------------------------------------------------------------
\* Properties.

TypeOK ==
    /\ pc \in {"idle", "done", "exit", "ctr_input", "ctr_gate", "ctr_tool", "ctr_run",
               "dem_load", "dem_gate", "dem_prepare", "dem_interp",
               "prj_collect", "prj_dem", "prj_interp", "prj_register", "prj_gate", "prj_write",
               "img_config", "img_load", "img_probe", "img_gate", "img_render",
               "img_fallback", "img_translate", "img_debug",
               "img_clip1", "img_clip2", "img_copy", "img_finish"}
    /\ runs \in 0..MaxRuns
    /\ cur.prod \in Producers \cup {"none"}
    /\ prevOk \in Producers \cup {"none"}
    /\ \A f \in Files : fs[f].k \in {"none", "partial", "full", "clip1", "clip2", "raw", "png"}

Finished == pc = "done"

\* A gate that was consulted skipped exactly when the target existed and
\* force was false.
GateDecides(gate, ex, force) == gate # "none" => ((gate = "skip") <=> (ex /\ ~force))

\* C1: in every producer, generate_dem_from_contours included, generation
\* is skipped and the existing target returned if and only if the target
\* file exists and force is false; in every other combination the producer
\* goes on to its generation step.
C1_SkipIffExistsAndNotForce ==
    /\ GateDecides(cur.gate, cur.ex, cur.force)
    /\ GateDecides(cur.sgate, cur.sex, cur.force)
    /\ cur.gate # "none" => cur.ex = Exists(cur.snap)
    /\ cur.gate = "skip" =>
         /\ Finished /\ cur.res = "ret"
         /\ OwnStep(cur.prod) \notin cur.gen
         /\ fs[Target(cur.prod)] = cur.snap
    /\ cur.sgate = "skip" => "interp" \notin cur.gen
    /\ cur.sgate = "gen" => (pc = "prj_interp" \/ "interp" \in cur.gen)
    /\ (cur.gate = "gen" /\ Finished /\ cur.res = "ret") => OwnStep(cur.prod) \in cur.gen
    /\ (cur.gate = "gen" /\ ~Finished) =>
         pc \in {"ctr_tool", "ctr_run", "dem_prepare", "dem_interp", "prj_write",
                 "img_render", "img_fallback", "img_translate", "img_debug",
                 "img_clip1", "img_clip2", "img_copy", "img_finish"}

C1_Witness ==
    /\ Finished /\ cur.prod = "project" /\ cur.res = "ret"
    /\ cur.sgate = "skip" /\ cur.gate = "skip"

\* C2: after an invocation with force=false that returned, a second
\* invocation of the same producer with force=false executes no generation
\* step at all and leaves the output content as it was.
C2_SecondRunDoesNoWork ==
    (Finished /\ prevOk = cur.prod /\ ~cur.force) =>
        (cur.gen = {} /\ fs[Target(cur.prod)] = cur.snap)

\* C3: when the target of the imagery, DEM or project export exists and
\* force is false, the invocation returns the existing path without failing
\* and without any side effect: nothing is opened, registered or probed.
C3_RerunIsNoOp ==
    (Finished /\ cur.prod \in {"imagery", "dem", "project"} /\ cur.ex0 /\ ~cur.force) =>
        (cur.res = "ret" /\ cur.pre = {} /\ cur.gen = {})

\* What can still keep a producer that passed its gate from reaching its
\* generation step: a tool, the processing modules or the elevation field
\* did not resolve.
Unresolved == {"ToolUnavailable", "ProcessingUnavailable", "FieldNotFound"}

\* C4: with force=true no cache gate skips, whether or not the output
\* exists; an invocation that returns has executed its generation step (for
\* imagery the render and the clip chain), and one that passed its inputs
\* and gate without executing it failed to resolve a tool.
C4_ForceAlwaysGenerates ==
    cur.force =>
        /\ cur.gate # "skip"
        /\ cur.sgate # "skip"
        /\ (Finished /\ cur.res = "ret") =>
             /\ OwnStep(cur.prod) \in cur.gen
             /\ cur.prod = "imagery" => "clip1" \in cur.gen
        /\ (Finished /\ cur.gate = "gen" /\ OwnStep(cur.prod) \notin cur.gen) =>
             (cur.res = "raise" /\ cur.err \in Unresolved)
        /\ (cur.sgate = "gen" /\ pc # "prj_interp") => "interp" \in cur.gen

C4_Witness ==
    /\ Finished /\ cur.force /\ cur.ex /\ cur.res = "ret"
    /\ cur.prod = "dem"

\* A stage of the chain did not end the chain: it did not report success,
\* or no file is at the output path after it.
StageFell(a) == a.out # "ok" \/ ~a.ex

StageOrder == <<"processing", "gdalwarp", "copy">>

\* C5: the stages run in the order native clip, warp tool, copy, and a
\* stage is attempted if and only if every earlier stage reported failure
\* or left no output file.
C5_FallbackOrdering ==
    (Finished /\ cur.prod = "imagery" /\ cur.chain # <<>>) =>
        /\ Len(cur.chain) <= 3
        /\ \A i \in 1..Len(cur.chain) : cur.chain[i].s = StageOrder[i]
        /\ \A i \in 2..3 :
             (Len(cur.chain) >= i) <=> (\A j \in 1..(i - 1) : Len(cur.chain) >= j /\ StageFell(cur.chain[j]))

\* C6: when stages 1 and 2 both fail or leave no file at the output path,
\* the output of a run that returns is exactly the temporary raster, also
\* when a failed stage had written a part of its output there.
C6_CopyIsVerbatim ==
    (/\ Finished /\ cur.prod = "imagery" /\ cur.res = "ret"
     /\ Len(cur.chain) >= 2
     /\ StageFell(cur.chain[1]) /\ StageFell(cur.chain[2])) =>
        (Exists(cur.raw) /\ fs["imagery"] = cur.raw)

C6_Witness ==
    /\ Finished /\ cur.prod = "imagery" /\ cur.res = "ret"
    /\ Len(cur.chain) = 3
    /\ ~cur.ex
    /\ cur.chain[1].out = "fail" /\ cur.chain[1].ex
    /\ cur.chain[2].out = "fail"
    /\ fs["imagery"] = cur.raw

\* C7: once the temporary raster exists the clip step never propagates an
\* error: the run ends with a file at the output path and returns.
C7_ChainCannotFail ==
    (Finished /\ cur.prod = "imagery" /\ Exists(cur.raw) /\ cur.chain # <<>>) =>
        (cur.res = "ret" /\ Exists(fs["imagery"]))

IsClip(how) == how \in {"processing", "gdalwarp"}

\* C8: two imagery runs of the same configuration and force flag, one whose
\* output a clipping stage produced and one whose output is the last-resort
\* copy, expose different things to the caller.
C8_CopyIsDistinguishable ==
    (/\ Finished /\ cur.prod = "imagery" /\ cur.res = "ret" /\ cur.chain # <<>>
     /\ imgPrev.how # "none" /\ imgPrev.force = cur.force
     /\ IsClip(imgPrev.how) # IsClip(ProducedBy(cur.chain))) =>
        cur.log # imgPrev.log

\* C9: the final output path of a producer never holds a partially
\* generated artifact, during or after a failed generation.
C9_NoPartialAtFinalPath ==
    \A p \in Producers : fs[Target(p)].k # "partial"

Independent == {"contours", "imagery", "dem"}

\* C10: when export-all ends with one of the contour, imagery or DEM
\* exports failed, the other independent exports were attempted in the run.
C10_BatchAttemptsAll ==
    (pc = "exit" /\ cmd.name = "export-all" /\ batch.failed \cap Independent # {}) =>
        Independent \subseteq batch.attempted

\* C11: for the xyz provider the probe request precedes the acquisition;
\* a reply that is a request error, has a status other than 200, has fewer
\* than 128 bytes or starts with neither image signature ends the run with
\* an error before any render, clip or copy and with the output file as it
\* was; for the wms provider no probe request is sent.
C11_ProbeGuardsAcquisition ==
    cur.prod = "imagery" =>
        /\ cfg.provider = "wms" => (cur.probe = NoReply /\ "probe" \notin cur.pre)
        /\ (cfg.provider = "xyz" /\ (cur.gen # {} \/ cur.gate # "none")) =>
             /\ "probe" \in cur.pre
             /\ ~cur.probe.err /\ cur.probe.status = 200 /\ cur.probe.len >= 128
             /\ cur.probe.sig \in {"png", "jpeg"}
        /\ ("probe" \in cur.pre /\
              (cur.probe.err \/ cur.probe.status # 200 \/ cur.probe.len < 128
                 \/ cur.probe.sig \notin {"png", "jpeg"})) =>
             /\ Finished /\ cur.res = "raise" /\ cur.err = "NetworkError"
             /\ cur.gen = {} /\ cur.chain = <<>>
             /\ fs["imagery"] = cur.snap
             /\ ~Exists(fs["tmp_tif"])

C11_Witness ==
    /\ Finished /\ cur.prod = "imagery" /\ cfg.provider = "xyz"
    /\ cur.probe.status = 200 /\ cur.probe.len = 127 /\ cur.probe.sig = "png"
    /\ cur.res = "raise" /\ cur.ex0

\* The steps inside the acquisition's temporary-directory block.
InAcquisition ==
    pc \in {"img_fallback", "img_translate", "img_debug",
            "img_clip1", "img_clip2", "img_copy", "img_finish"}

\* C12: the temporary raster and the temporary image exist only while the
\* acquisition step is running, whichever way it is left; of the files an
\* imagery run wrote, only the output and, with KEEP_TEMP_IMAGERY set, the
\* debug copy are there afterwards.
C12_TempFilesAreScoped ==
    /\ ~InAcquisition => (~Exists(fs["tmp_tif"]) /\ ~Exists(fs["tmp_png"]))
    /\ pc # "img_translate" => ~Exists(fs["tmp_png"])
    /\ (cur.prod = "imagery" /\ Finished) =>
         \A f \in Files :
           fs[f].fresh => (f = "imagery" \/ (f = "debug" /\ cfg.keep_temp))

C12_Witness ==
    /\ Finished /\ cur.prod = "imagery" /\ cur.res = "raise"
    /\ Len(cur.chain) = 3 /\ cur.chain[3].out = "raise"
    /\ Exists(cur.raw)
    /\ fs["debug"].fresh

\* The filter the query is to have for an interval: the rows whose field
\* divided by the interval is within 1e-6 of a whole number.
IntervalFilter(z_field, interval) ==
    [op |-> "near_multiple", field |-> z_field, interval |-> interval, tolerance_inverse |-> 1000000]

\* The four cases of the query construction, for a given reading of "an
\* interval is requested".
QueryShape(requested) ==
    LET q == call.sql IN
    /\ (requested /\ ~call.merge) =>
         /\ q # None
         /\ q[1].where = <<IntervalFilter(call.z_field, call.interval[1])>>
         /\ q[1].group = <<>>
    /\ (~requested /\ call.merge) =>
         /\ q # None
         /\ q[1].select = "linemerge" /\ q[1].group = <<call.z_field>>
         /\ q[1].where = <<>>
    /\ (requested /\ call.merge) =>
         /\ q # None
         /\ q[1].select = "linemerge" /\ q[1].group = <<call.z_field>>
         /\ q[1].where = <<IntervalFilter(call.z_field, call.interval[1])>>
    /\ (~requested /\ ~call.merge) =>
         /\ q = None
         /\ call.args = <<>>
    /\ q # None => (Len(call.args) = 4 /\ call.args[4] = q[1])

\* C13, as stated: for every interval and merge flag, an interval (any
\* value other than None) without merge yields the filter-only query, merge
\* without an interval the grouped query without filter, both the grouped
\* query with the filter, neither no query and no SQL arguments.
C13_QueryConstruction ==
    call.fn = "build_sql" => QueryShape(call.interval # None)

\* C13, amended: the same with "an interval" read as a non-zero interval;
\* an interval of zero counts as no interval.
C13_QueryConstructionNonZero ==
    call.fn = "build_sql" => QueryShape(call.interval # None /\ call.interval[1] # 0)

C13_Witness ==
    /\ call.fn = "build_sql" /\ call.interval = <<Feet(2)>> /\ call.merge
    /\ call.sql # None /\ Len(call.sql[1].where) = 1

IsMultiple(z, i) == IF i = 0 THEN z = 0 ELSE z % i = 0

\* Some multiple k * i is closer to z than i / 1000000.
IsNearMultiple(z, i) ==
    \E k \in 0..((z \div i) + 1) :
       (IF k * i >= z THEN k * i - z ELSE z - k * i) <= (i - 1) \div 1000000

OneFeaturePerValue == call.features = Cardinality({call.selected[k] : k \in 1..Len(call.selected)})

\* C14, as stated: the query built with an interval and merge=True selects
\* exactly the rows whose elevation is a multiple of the interval and
\* yields one feature per distinct selected elevation.
C14_SelectsMultiples ==
    (call.fn = "ogr2ogr_sql" /\ call.interval # None /\ call.merge) =>
        LET Multiple(z) == IsMultiple(z, call.interval[1]) IN
        /\ call.selected = SelectSeq(call.rows, Multiple)
        /\ OneFeaturePerValue

\* C14, amended: with a non-zero interval and merge=True the query selects
\* exactly the rows whose elevation is within a millionth of the interval of
\* a multiple of it, and yields one feature per distinct selected elevation
\* value; for {100, 100, 101, 102} and interval 1 that is all four rows and
\* 3 features. With an interval of zero every row is selected.
C14_SelectsNearMultiples ==
    (call.fn = "ogr2ogr_sql" /\ call.interval # None /\ call.merge) =>
        LET i == call.interval[1]
            NearMultiple(z) == IsNearMultiple(z, i)
        IN  /\ i # 0 => call.selected = SelectSeq(call.rows, NearMultiple)
            /\ i = 0 => call.selected = call.rows
            /\ OneFeaturePerValue
            /\ (i = Feet(1) /\ call.rows = <<Feet(100), Feet(100), Feet(101), Feet(102)>>) =>
                 (call.selected = call.rows /\ call.features = 3)

C14_Witness ==
    /\ call.fn = "ogr2ogr_sql" /\ call.interval = <<Feet(1)>> /\ call.merge
    /\ call.rows = <<Feet(100), Feet(100) + 1, Feet(100) + 20, Feet(101)>>
    /\ call.selected = <<Feet(100), Feet(100) + 1, Feet(101)>>
    /\ call.features = 3

IsIndexFile(path) == path.suffix \in {".shx", ".SHX", ".Shx"}

MainFile(path) == [stem |-> path.stem, suffix |-> ".shp"]

\* C16: normalize_input_path returns the sibling .shp file when the path
\* has the .shx extension, in any letter case, and that sibling exists; in
\* every other case, whether the path itself exists or not, it returns the
\* path unchanged.
C16_SidecarNormalization ==
    call.fn = "normalize_input_path" =>
        /\ (IsIndexFile(call.input_path) /\ MainFile(call.input_path) \in call.exists) =>
             call.out = MainFile(call.input_path)
        /\ ~(IsIndexFile(call.input_path) /\ MainFile(call.input_path) \in call.exists) =>
             call.out = call.input_path
        /\ call.out \in FilePaths

C16_Witness ==
    /\ call.fn = "normalize_input_path"
    /\ call.input_path = [stem |-> "contours", suffix |-> ".SHX"]
    /\ call.input_path \notin call.exists
    /\ call.out = [stem |-> "contours", suffix |-> ".shp"]

\* C17: for every project root and every non-empty path string the
\* resolved path is absolute: the root joined with the string when the
\* string is relative, the string itself when it is absolute.
C17_ResolvedPathIsAbsolute ==
    (call.fn = "resolve_path" /\ call.path_str # EmptyString) =>
        /\ call.out # None
        /\ call.out[1].abs
        /\ ~call.path_str.lead =>
             call.out[1].parts = Path(call.root).parts \o Path(call.path_str).parts
        /\ call.path_str.lead => call.out[1] = Path(call.path_str)

\* The candidates under a suite prefix, in the order they are to be tried.
Candidates(tool, prefix) ==
    <<prefix \o <<"bin", tool>>>> \o
    (IF Len(prefix) >= 2 /\ prefix[Len(prefix)] = "qgis" /\ prefix[Len(prefix) - 1] = "apps"
     THEN LET root == SubSeq(prefix, 1, Len(prefix) - 2) IN
          <<root \o <<"bin", Exe(tool)>>, root \o <<"bin", tool>>>>
     ELSE <<>>)

FirstExisting(cands, exists) ==
    LET hits == {k \in 1..Len(cands) : cands[k] \in exists} IN
    IF hits = {} THEN None
    ELSE Some(cands[CHOOSE k \in hits : \A j \in hits : k <= j])

\* C18: a non-empty override is returned whether or not it exists;
\* otherwise the PATH hit; otherwise, with a suite prefix, the first
\* existing candidate among prefix/bin/tool and, for an apps/qgis prefix,
\* root/bin/tool.exe and root/bin/tool; otherwise None.
C18_ToolLocationPriority ==
    call.fn = "find_tool" =>
        LET override == call.explicit_path # None /\ call.explicit_path[1] # <<>>
            prefixed == call.qgis_prefix # None /\ call.qgis_prefix[1] # <<>>
        IN  /\ override => call.out = call.explicit_path
            /\ (~override /\ call.which # None) => call.out = call.which
            /\ (~override /\ call.which = None /\ ~prefixed) => call.out = None
            /\ (~override /\ call.which = None /\ prefixed) =>
                 call.out = FirstExisting(Candidates(call.tool, call.qgis_prefix[1]), call.exists)

C18_Witness ==
    /\ call.fn = "find_tool" /\ call.tool = "gdalwarp"
    /\ call.explicit_path = <<<<>>>> /\ call.which = None
    /\ call.qgis_prefix = <<<<"OSGeo4W", "apps", "qgis">>>>
    /\ call.exists = {<<"OSGeo4W", "bin", "gdalwarp.exe">>, <<"OSGeo4W", "bin", "gdalwarp">>}
    /\ call.out = <<<<"OSGeo4W", "bin", "gdalwarp.exe">>>>

\* C19: a generating contour export returns only when the tool was
\* located and its process exited with status zero; when the tool is not
\* located the call fails with the tool-unavailable error and no process
\* was started; a non-zero exit status is raised to the caller.
C19_ContourFailuresPropagate ==
    cur.prod = "contours" =>
        /\ (Finished /\ cur.gate = "gen" /\ cur.res = "ret") =>
             (cur.tool = "located" /\ cur.exit = <<0>>)
        /\ cur.tool = "missing" =>
             /\ Finished /\ cur.res = "raise" /\ cur.err = "ToolUnavailable"
             /\ cur.exit = <<>> /\ "ogr2ogr" \notin cur.gen
             /\ fs["dxf"] = cur.snap
        /\ (cur.exit # <<>> /\ cur.exit # <<0>>) =>
             (Finished /\ cur.res = "raise" /\ cur.err = "CalledProcessError")

C19_Witness ==
    /\ Finished /\ cur.prod = "contours" /\ cur.force /\ cur.ex
    /\ cur.exit = <<1>> /\ cur.res = "raise"

\* C20: when the processing modules cannot be imported, run_export_dem
\* fails with an error and writes no DEM, while generate_dem_from_contours
\* yields no DEM layer without raising and run_export_project goes on with
\* the layers it has.
C20_ProcessingUnavailability ==
    /\ (cur.prod = "dem" /\ ~cfg.processing /\ cur.gate = "gen" /\ pc # "dem_prepare") =>
         /\ Finished /\ cur.res = "raise" /\ cur.err = "ProcessingUnavailable"
         /\ "interp" \notin cur.gen
         /\ fs["dem"] = cur.snap
    /\ (cur.prod = "project" /\ ~cfg.processing) =>
         /\ cur.err # "ProcessingUnavailable"
         /\ cur.sgate = "none" /\ "interp" \notin cur.gen
         /\ ~fs["dem"].fresh
         /\ pc \notin {"prj_collect", "prj_dem"} /\ cur.res # "raise" =>
              (("contour" \in cur.layers /\ "dem" \notin cur.layers) <=> cur.sub = "no_processing")
         /\ cur.sub = "no_processing" =>
              /\ cur.layers # {} /\ "dem" \notin cur.layers
              /\ Finished => (cur.res = "ret" \/ cur.err = "WriteError")

C20_Witness ==
    /\ Finished /\ cur.prod = "project" /\ cur.sub = "no_processing"
    /\ cur.res = "ret" /\ cur.gate = "gen" /\ fs["project"].fresh
    /\ "dem" \notin cur.layers

ContourSteps == <<"resolve", "exists", "cache", "locate", "query", "run">>

\* C21: the steps of run_export_contours run in the order resolve and
\* normalize the input, input existence check, cache check, tool location,
\* query construction, tool invocation; a missing input fails with
\* not-found even when the output exists and force is false, and a cache
\* hit reaches neither the tool location nor the process.
C21_ContourStepOrder ==
    cur.prod = "contours" =>
        /\ Len(cur.trace) <= Len(ContourSteps)
        /\ \A k \in 1..Len(cur.trace) : cur.trace[k] = ContourSteps[k]
        /\ (Finished /\ ~cfg.contour_shp) =>
             (cur.res = "raise" /\ cur.err = "NotFound" /\ cur.trace = <<"resolve", "exists">>)
        /\ (Finished /\ cfg.contour_shp /\ cur.ex0 /\ ~cur.force) =>
             /\ cur.res = "ret" /\ cur.trace = <<"resolve", "exists", "cache">>
             /\ cur.tool = "none" /\ cur.exit = <<>> /\ cur.gen = {}
        /\ (Finished /\ cur.res = "ret" /\ cur.gate = "gen") => cur.trace = ContourSteps

C21_Witness ==
    /\ Finished /\ cur.prod = "contours" /\ ~cfg.contour_shp
    /\ cur.ex0 /\ ~cur.force /\ cur.err = "NotFound"

\* C22: in both DEM paths the interpolation extent is the boundary
\* layer's whenever a boundary is configured and the contour layer's only
\* when none is configured: a configured boundary that cannot be loaded
\* does not turn the extent into the contour layer's.
C22_DemExtentSelection ==
    (cur.prod \in {"dem", "project"} /\ cur.extent # "none") =>
        /\ cur.bnd.configured => cur.extent = "boundary"
        /\ ~cur.bnd.configured => cur.extent = "contour"

\* C23: in both DEM paths the interpolation routine is invoked only after
\* the elevation field was found on the contour layer; when the field is
\* absent the request fails and the routine is not called.
C23_FieldResolvedBeforeInterpolation ==
    cur.prod \in {"dem", "project"} =>
        /\ "interp" \in cur.gen => cur.field = "present"
        /\ (cur.field = "absent" /\ Finished) => cur.res = "raise"

\* C24: a failure to load an extra layer is swallowed: every configured
\* extra layer is attempted, in order, whatever the earlier ones did, the
\* ones that load are collected after the layers found before them, and
\* the "no layers" failure is raised only when no layer at all was
\* collected.
C24_ExtraLayerFailuresSwallowed ==
    call.fn = "collect_layers" =>
        LET x == call.extras IN
        /\ x.tried = [k \in 1..Len(x.names) |-> k]
        /\ x.got = SelectSeq(x.tried, LAMBDA k : x.names[k] = "ok")
        /\ call.layers = call.core \cup {<<"extra", k>> : k \in Range(x.got)}
        /\ call.raised <=> (call.core = {} /\ \A k \in 1..Len(x.names) : x.names[k] = "fail")

\* A first extra layer that failed to load, a second one that loaded, and
\* no other layer: the export goes on with the second.
C24_Witness ==
    /\ call.fn = "collect_layers"
    /\ call.extras.names = <<"fail", "ok">>
    /\ call.core = {}
    /\ call.layers = {<<"extra", 2>>}
    /\ ~call.raised

\* C25: when run_export_imagery is forced while an output from an earlier
\* invocation is present, the file at the output path when it returns was
\* written by this invocation: a clipping stage that reports success
\* without writing does not make it return the earlier file.
C25_ForcedImageryIsFresh ==
    (Finished /\ cur.prod = "imagery" /\ cur.force /\ cur.ex0 /\ cur.res = "ret") =>
        /\ Exists(fs["imagery"])
        /\ fs["imagery"].fresh

\* C26: what a failed contour or DEM generation left at the output path
\* is never taken for a cached result by a later unforced invocation.
C26_LeftoversAreNotCached ==
    (cur.prod \in {"contours", "dem"} /\ ~cur.force /\ cur.gate = "skip") =>
        cur.snap.k # "partial"

\* C27: the extent handed to the acquisition is expressed in the
\* destination CRS handed with it, whatever IMAGERY_OUTPUT_CRS is (unset,
\* the boundary CRS, another CRS, not a CRS), and it is reprojected exactly
\* when the destination CRS differs from the boundary CRS.
C27_ExtentMatchesDestinationCrs ==
    call.fn = "acquisition_request" =>
        /\ call.request.extent_crs = call.request.dest_crs
        /\ call.request.transformed <=> (call.request.dest_crs # call.boundary_crs)

\* C29: an argument given to run_export_contours is the value used, and
\* when the elevation field, the interval or the merge flag is not given
\* the configured CONTOUR_Z_FIELD, OUTPUT_CONTOUR_INTERVAL or
\* OUTPUT_MERGE_FRAGMENTS is the one used in the query and the command.
C29_ArgumentsOverConfiguration ==
    call.fn = "contour_parameters" =>
        LET a == call.args
            e == call.environ
            z == IF a.z_field # None THEN a.z_field[1]
                 ELSE IF e.CONTOUR_Z_FIELD # None THEN e.CONTOUR_Z_FIELD[1] ELSE "Contour"
            i == IF a.contour_interval # None THEN a.contour_interval[1]
                 ELSE e.OUTPUT_CONTOUR_INTERVAL
            m == IF a.merge_fragments # None THEN a.merge_fragments[1][1]
                 ELSE e.OUTPUT_MERGE_FRAGMENTS = Some(TRUE)
        IN  /\ call.used.zfield = z
            /\ call.used.interval = i
            /\ call.used.merge = m
            /\ call.used.sql = build_sql("contours", z, i, m)

\* C28: when export-all succeeds, the project it writes holds every
\* artifact of the run: the contour layer, the imagery raster and the DEM
\* are among the layers added to the project, whether or not
\* IMAGERY_TIF_PATH and OUTPUT_DEM_TIF_PATH are set.
C28_ProjectAggregatesArtifacts ==
    (Finished /\ cmd.name = "export-all" /\ cur.prod = "project" /\ cur.res = "ret"
       /\ "write" \in cur.gen) =>
        {"contour", "imagery", "dem"} \subseteq cur.layers

====
